---- MODULE Spec2Model ----
(***************************************************************************)
(* A model of the cdrom crate of cue2ccd (cdrom/src/lib.rs): the disc      *)
(* geometry built from a cuesheet (Disc::from_cuesheet), the sector        *)
(* locator (SectorIterator), the subchannel synthesizer                    *)
(* (Sector::generate_subchannel) and the CCD writer (Disc::generate_ccd).  *)
(***************************************************************************)
EXTENDS Integers, Sequences, FiniteSets, TLC

(***************************************************************************)
(* Bounds of the model.                                                    *)
(***************************************************************************)
\* The largest image, in sectors, over all backing files of a cuesheet.
MaxSectors == 3

\* Bytes per raw sector.
SectorSize == 2352

\* The lead-in sectors an image leaves out.
LeadIn == 150

\* from_cuesheet asks the cue track for its indices 0 .. IndexLimit - 1.
IndexLimit == 99

(***************************************************************************)
(* Option<T>.                                                              *)
(***************************************************************************)
None == [tag |-> "None"]

Some(v) == [tag |-> "Some", val |-> v]

(***************************************************************************)
(* The cuesheet as the cue crate hands it over: one record per TRACK with  *)
(* get_filename(), get_start(), get_length(), get_index(i), get_mode().    *)
(* A cuesheet is described here by its layout: per track, the sectors of   *)
(* its pregap (INDEX 00 .. INDEX 01), of its body, the offset of an        *)
(* INDEX 02 inside the body (0: none), whether a FILE line precedes it,    *)
(* and its mode.  get_start() is the offset of INDEX 01 in the track's     *)
(* file; get_length() is known when the next track shares the file and     *)
(* runs to that track's first index.                                       *)
(***************************************************************************)
CueModes == {"Audio", "Mode1Raw", "Mode2Raw"}

FileNames == <<"a.bin", "b.bin">>

TrackSpecs(budget) ==
    { [pre |-> p, body |-> b, idx2 |-> x, newfile |-> nf, mode |-> m] :
        p \in 0..budget, b \in 1..budget, x \in 0..budget,
        nf \in BOOLEAN, m \in CueModes }

SpecSize(t) == t.pre + t.body

RECURSIVE Layouts(_)
Layouts(budget) ==
    {<<>>} \cup
    UNION { { <<t>> \o rest : rest \in Layouts(budget - SpecSize(t)) } :
            t \in { s \in TrackSpecs(budget) :
                      SpecSize(s) <= budget /\ s.idx2 < s.body } }

\* The file (an index of FileNames) of each track of a layout.
RECURSIVE FileOf(_, _)
FileOf(layout, i) ==
    IF i = 1 THEN 1
    ELSE FileOf(layout, i - 1) + (IF layout[i].newfile THEN 1 ELSE 0)

\* The offset, in its file, at which track i of a layout begins.
RECURSIVE OffsetOf(_, _)
OffsetOf(layout, i) ==
    IF i = 1 \/ layout[i].newfile THEN 0
    ELSE OffsetOf(layout, i - 1) + SpecSize(layout[i - 1])

WellFormed(layout) ==
    /\ Len(layout) >= 1
    /\ ~layout[1].newfile
    /\ FileOf(layout, Len(layout)) <= Len(FileNames)

CueIndex(layout, i) ==
    LET off == OffsetOf(layout, i)
        t   == layout[i]
    IN  [ n \in ((IF t.pre > 0 THEN {0} ELSE {}) \cup {1}
                   \cup (IF t.idx2 > 0 THEN {2} ELSE {}))
            |-> CASE n = 0 -> off
                  [] n = 1 -> off + t.pre
                  [] n = 2 -> off + t.pre + t.idx2 ]

CueTrack(layout, i) ==
    LET t      == layout[i]
        start  == OffsetOf(layout, i) + t.pre
        shared == i < Len(layout) /\ ~layout[i + 1].newfile
    IN  [ filename |-> FileNames[FileOf(layout, i)],
          start    |-> start,
          length   |-> IF shared THEN Some(OffsetOf(layout, i + 1) - start)
                                 ELSE None,
          index    |-> CueIndex(layout, i),
          mode     |-> t.mode ]

CueOf(layout) == [ i \in 1..Len(layout) |-> CueTrack(layout, i) ]

\* The byte length of each backing file of a layout.
FilesOf(layout) ==
    [ f \in { FileNames[FileOf(layout, i)] : i \in 1..Len(layout) } |->
        LET last == CHOOSE i \in 1..Len(layout) :
                      /\ FileNames[FileOf(layout, i)] = f
                      /\ \A j \in 1..Len(layout) :
                           FileNames[FileOf(layout, j)] = f => j <= i
        IN  (OffsetOf(layout, last) + SpecSize(layout[last])) * SectorSize ]

(***************************************************************************)
(* Disc::from_cuesheet.                                                    *)
(***************************************************************************)
\* fn sector_length: the file's sectors, 0 when its metadata cannot be read.
sector_length(fs, path) ==
    IF path \in DOMAIN fs THEN fs[path] \div SectorSize ELSE 0

get_index(track, i) ==
    IF i \in DOMAIN track.index THEN Some(track.index[i]) ELSE None

unwrap_or(opt, default) == IF opt.tag = "Some" THEN opt.val ELSE default

from_cue_mode(mode) == mode

\* The end of index i of a cue track whose biased start is start.
IndexEnd(track, i, start, current_track_length) ==
    LET next == get_index(track, i + 1)
    IN  IF next.tag = "Some"
        THEN next.val - 1 + start
        ELSE start + unwrap_or(track.length, current_track_length)

\* The loop "for i in 0..99" over the indices of one cue track.
\* It pushes one Index per i that the cue track has, in ascending order of i.
BuildIndices(track, start, disc_length_so_far, current_track_length) ==
    LET present == { i \in 0..(IndexLimit - 1) : get_index(track, i).tag = "Some" }
        nth(k)  == CHOOSE i \in present :
                     Cardinality({ j \in present : j < i }) = k - 1
    IN  [ k \in 1..Cardinality(present) |->
            [ number |-> nth(k) % 256,
              start  |-> get_index(track, nth(k)).val + disc_length_so_far,
              end    |-> IndexEnd(track, nth(k), start, current_track_length) ] ]

\* Accumulate with the length of the file just entered added, not that of the
\* file left behind.
AccumulateCurrentFile(fs, previous_file, current_file, disc_length_so_far) ==
    IF previous_file.tag = "Some" /\ previous_file.val # current_file
    THEN disc_length_so_far + sector_length(fs, current_file)
    ELSE disc_length_so_far

\* disc_length_so_far after the "start of a new file" test of one iteration.
Accumulate(fs, previous_file, current_file, disc_length_so_far) ==
    IF previous_file.tag = "Some" /\ previous_file.val # current_file
    THEN disc_length_so_far + sector_length(fs, previous_file.val)
    ELSE disc_length_so_far

\* The Track pushed by iteration i (from 1) of the loop over the cue tracks.
BuildTrack(track, i, disc_length_so_far, current_track_length) ==
    LET start  == track.start + disc_length_so_far
        length == unwrap_or(track.length,
                            disc_length_so_far + current_track_length - start)
    IN  [ number  |-> i % 256,
          start   |-> start,
          length  |-> length,
          indices |-> BuildIndices(track, start, disc_length_so_far,
                                   current_track_length),
          mode    |-> from_cue_mode(track.mode) ]

\* The loop over the cue tracks, from track i on, and the Disc it ends with.
RECURSIVE FromCuesheetLoop(_, _, _, _, _, _, _)
FromCuesheetLoop(cuesheet, fs, i, previous_file, disc_length_so_far, current_track_length, tracks) ==
    IF i > Len(cuesheet)
    THEN [ tracks       |-> tracks,
           sector_count |-> disc_length_so_far + current_track_length ]
    ELSE LET track        == cuesheet[i]
             current_file == track.filename
             length_now   == sector_length(fs, current_file)
             so_far       == Accumulate(fs, previous_file, current_file,
                                        disc_length_so_far)
         IN  FromCuesheetLoop(cuesheet, fs, i + 1, Some(current_file), so_far,
                              length_now,
                              Append(tracks,
                                     BuildTrack(track, i, so_far, length_now)))

from_cuesheet(cuesheet, fs) ==
    FromCuesheetLoop(cuesheet, fs, 1, None, 0, 0, <<>>)

(***************************************************************************)
(* Integer helpers: Rust's truncating / and %, <<, | and "as u8".          *)
(***************************************************************************)
TDiv(a, b) == IF a >= 0 THEN a \div b ELSE -((-a) \div b)

TRem(a, b) == a - b * TDiv(a, b)

RECURSIVE BitOr(_, _)
BitOr(a, b) ==
    IF a = 0 THEN b
    ELSE IF b = 0 THEN a
    ELSE (IF a % 2 = 1 \/ b % 2 = 1 THEN 1 ELSE 0) + 2 * BitOr(a \div 2, b \div 2)

Shl(a, n) == a * (2 ^ n)

AsU8(x) == x % 256

(***************************************************************************)
(* cdrom_crc::crc16, the CRC-16 of the Q channel (polynomial 0x1021, the   *)
(* result complemented), and its initial value CRC16_INITIAL_CRC.          *)
(***************************************************************************)
CRC16_INITIAL_CRC == 0

FlipBit(x, w) == IF (x \div w) % 2 = 1 THEN x - w ELSE x + w

CrcBit(crc, bit) ==
    LET shifted == (crc * 2) % 65536
    IN  IF crc \div 32768 # bit
        THEN FlipBit(FlipBit(FlipBit(shifted, 4096), 32), 1)
        ELSE shifted

Bit(byte, k) == (byte \div (2 ^ k)) % 2

CrcByte(crc, byte) ==
    LET c7 == CrcBit(crc, Bit(byte, 7))
        c6 == CrcBit(c7, Bit(byte, 6))
        c5 == CrcBit(c6, Bit(byte, 5))
        c4 == CrcBit(c5, Bit(byte, 4))
        c3 == CrcBit(c4, Bit(byte, 3))
        c2 == CrcBit(c3, Bit(byte, 2))
        c1 == CrcBit(c2, Bit(byte, 1))
    IN  CrcBit(c1, Bit(byte, 0))

RECURSIVE CrcBytes(_, _, _)
CrcBytes(crc, bytes, i) ==
    IF i > Len(bytes) THEN crc
    ELSE LET fed == CrcByte(crc, bytes[i])
         IN  IF fed \in 0..65535 THEN CrcBytes(fed, bytes, i + 1) ELSE fed

crc16(bytes, initial) == 65535 - CrcBytes(initial, bytes, 1)

(***************************************************************************)
(* Sector::generate_subchannel and Sector::generate_q_subchannel.          *)
(***************************************************************************)
DiscProtection == {"DiscGuard", "SecuROM", "LibCrypt"}

\* bcd with the digits taken in base 16.
bcd_hex(dec) == AsU8(BitOr(Shl(TDiv(dec, 16), 4), TRem(dec, 16)))

bcd(dec) == AsU8(BitOr(Shl(TDiv(dec, 10), 4), TRem(dec, 10)))

\* q[0] after the control field and the Q mode are set.
ControlAndMode(track_type) ==
    BitOr(IF track_type = "Audio" THEN 0 ELSE BitOr(0, Shl(1, 6)), Shl(1, 0))

\* generate_q_subchannel with the relative SEC not reduced modulo 60.
generate_q_subchannel_sec(absolute_sector, relative_sector, track, index, track_type, protection, chosen_protection_type) ==
    LET relative_sector_count ==
            IF 0 > relative_sector THEN 0 - relative_sector ELSE relative_sector
        head == << ControlAndMode(track_type),
                   bcd(track),
                   bcd(index),
                   bcd(TDiv(relative_sector_count, 4500)),
                   bcd(TDiv(relative_sector_count, 75)),
                   bcd(TRem(relative_sector_count, 75)),
                   0,
                   bcd(TDiv(absolute_sector, 4500)),
                   bcd(TRem(TDiv(absolute_sector, 75), 60)),
                   bcd(TRem(absolute_sector, 75)) >>
        crc  == crc16(head, CRC16_INITIAL_CRC)
    IN  head \o << AsU8((crc \div 256) % 256), AsU8(crc % 256) >>

generate_q_subchannel(absolute_sector, relative_sector, track, index, track_type, protection, chosen_protection_type) ==
    LET relative_sector_count ==
            IF 0 > relative_sector THEN 0 - relative_sector ELSE relative_sector
        head == << ControlAndMode(track_type),
                   bcd(track),
                   bcd(index),
                   bcd(TDiv(relative_sector_count, 4500)),
                   bcd(TRem(TDiv(relative_sector_count, 75), 60)),
                   bcd(TRem(relative_sector_count, 75)),
                   0,
                   bcd(TDiv(absolute_sector, 4500)),
                   bcd(TRem(TDiv(absolute_sector, 75), 60)),
                   bcd(TRem(absolute_sector, 75)) >>
        crc  == crc16(head, CRC16_INITIAL_CRC)
    IN  head \o << AsU8((crc \div 256) % 256), AsU8(crc % 256) >>

\* PChannel without the test for the first sector of the disc.
PChannelPregapOnly(sector) ==
    IF sector.index.number = 0
    THEN [ i \in 1..12 |-> 255 ]
    ELSE [ i \in 1..12 |-> 0 ]

\* The P channel of a sector.
PChannel(sector) ==
    IF sector.start = 0 \/ sector.index.number = 0
    THEN [ i \in 1..12 |-> 255 ]
    ELSE [ i \in 1..12 |-> 0 ]

\* generate_subchannel with the R-W channels written as FFs.
generate_subchannel_ff(sector, protection, chosen_protection_type) ==
    LET p    == PChannel(sector)
        q    == generate_q_subchannel(sector.absolute_start,
                                      sector.relative_position,
                                      sector.track.number,
                                      sector.index.number,
                                      sector.track.mode,
                                      protection, chosen_protection_type)
        rest == [ i \in 1..72 |-> 255 ]
    IN  p \o q \o rest

generate_subchannel(sector, protection, chosen_protection_type) ==
    LET p    == PChannel(sector)
        q    == generate_q_subchannel(sector.absolute_start,
                                      sector.relative_position,
                                      sector.track.number,
                                      sector.index.number,
                                      sector.track.mode,
                                      protection, chosen_protection_type)
        rest == [ i \in 1..72 |-> 0 ]
    IN  p \o q \o rest

(***************************************************************************)
(* SectorIterator::sector_from_number.                                     *)
(***************************************************************************)
\* The edge of index i of a track: the next index's start, or the track's end.
Boundary(track, i) ==
    IF i + 1 <= Len(track.indices)
    THEN track.indices[i + 1].start
    ELSE track.start + track.length

\* The test "index.start <= sector && boundary >= sector".
Contains(track, i, sector) ==
    track.indices[i].start <= sector /\ Boundary(track, i) >= sector

\* The (track, index) positions of a disc whose test a sector passes.
Matches(d, sector) ==
    { ti \in UNION { { <<t, i>> : i \in 1..Len(d.tracks[t].indices) } :
                     t \in 1..Len(d.tracks) } :
        Contains(d.tracks[ti[1]], ti[2], sector) }

\* The first of them in the order of the scan.
FirstMatch(d, sector) ==
    CHOOSE ti \in Matches(d, sector) :
        \A other \in Matches(d, sector) :
            \/ ti[1] < other[1]
            \/ ti[1] = other[1] /\ ti[2] <= other[2]

MakeSector(track, index, sector) ==
    [ start             |-> sector,
      absolute_start    |-> sector + LeadIn,
      relative_position |-> sector - track.start,
      size              |-> SectorSize,
      track             |-> track,
      index             |-> index ]

sector_from_number(d, sector) ==
    IF Matches(d, sector) = {} THEN None
    ELSE LET ti == FirstMatch(d, sector)
         IN  Some(MakeSector(d.tracks[ti[1]],
                             d.tracks[ti[1]].indices[ti[2]], sector))

(***************************************************************************)
(* Disc::generate_ccd.  The text is the sequence of its lines, each ended  *)
(* by "\n"; a line is the format string that wrote it and the numbers      *)
(* formatted into it.  An empty line is Line("", <<>>).                    *)
(***************************************************************************)
Line(fmt, args) == [ fmt |-> fmt, args |-> args ]

BlankLine == Line("", <<>>)

lba_to_msf(lba) ==
    << TDiv(lba, 4500), TRem(TDiv(lba, 75), 60), TRem(lba, 75) >>

\* TrackMode::as_u8
mode_as_u8(mode) ==
    CASE mode = "Audio" -> 0
      [] mode \in {"Mode1", "Mode1Raw"} -> 1
      [] OTHER -> 2

\* enum Pointer and Pointer::as_u8
FirstTrack == [ kind |-> "FirstTrack" ]

LastTrack == [ kind |-> "LastTrack" ]

LeadOut == [ kind |-> "LeadOut" ]

TrackPointer(n) == [ kind |-> "Track", value |-> n ]

pointer_as_u8(pointer) ==
    CASE pointer.kind = "Track" -> pointer.value
      [] pointer.kind = "FirstTrack" -> 160
      [] pointer.kind = "LastTrack" -> 161
      [] pointer.kind = "LeadOut" -> 162

\* PointerTime with the leadout's M/S/F taken from the LBA itself.
PointerTimeNoLeadIn(d, pointer, track) ==
    CASE pointer.kind \in {"FirstTrack", "LastTrack"} ->
           << track.number * 4500 - 150, track.number, 0, 0 >>
      [] pointer.kind = "LeadOut" ->
           << d.sector_count >> \o lba_to_msf(d.sector_count)
      [] OTHER ->
           << track.start >> \o lba_to_msf(track.start + 150)

\* The (lba, m, s, f) generate_track gives a pointer.
PointerTime(d, pointer, track) ==
    CASE pointer.kind \in {"FirstTrack", "LastTrack"} ->
           << track.number * 4500 - 150, track.number, 0, 0 >>
      [] pointer.kind = "LeadOut" ->
           << d.sector_count >> \o lba_to_msf(d.sector_count + 150)
      [] OTHER ->
           << track.start >> \o lba_to_msf(track.start + 150)

generate_track(d, entry, pointer, track) ==
    LET time    == PointerTime(d, pointer, track)
        control == IF track.mode = "Audio" THEN 0 ELSE 4
    IN  << Line("[Entry {}]", <<entry>>),
           Line("Session=1", <<>>),
           Line("Point=0x{:02x}", <<pointer_as_u8(pointer)>>),
           Line("ADR=0x01", <<>>),
           Line("Control=0x{:02x}", <<control>>),
           Line("TrackNo=0", <<>>),
           Line("AMin=0", <<>>),
           Line("ASec=0", <<>>),
           Line("AFrame=0", <<>>),
           Line("ALBA=-150", <<>>),
           Line("Zero=0", <<>>),
           Line("PMin={}", <<time[2]>>),
           Line("PSec={}", <<time[3]>>),
           Line("PFrame={}", <<time[4]>>),
           Line("PLBA={}", <<time[1]>>),
           BlankLine >>

generate_track_entry(track) ==
    << Line("[TRACK {}]", <<track.number>>),
       Line("MODE={}", <<mode_as_u8(track.mode)>>) >>
    \o [ k \in 1..Len(track.indices) |->
           Line("INDEX {}={}",
                <<track.indices[k].number, track.indices[k].start>>) ]

\* The texts pieces[k], ..., pushed one after the other.
RECURSIVE PushAll(_, _)
PushAll(pieces, k) ==
    IF k > Len(pieces) THEN <<>> ELSE pieces[k] \o PushAll(pieces, k + 1)

\* toc_entries without the leadout's entry.
toc_entries_no_leadout(d) == Len(d.tracks) + 2

\* "We always write out exactly 3 TOC entries more than the number of tracks."
toc_entries(d) == Len(d.tracks) + 3

generate_ccd(d) ==
    LET first_track == d.tracks[1]
        last_track  == IF Len(d.tracks) > 1 THEN d.tracks[Len(d.tracks)]
                                             ELSE first_track
        entry_of    == [ k \in 1..Len(d.tracks) |->
                           generate_track(d, 3 + (k - 1),
                                          TrackPointer(d.tracks[k].number),
                                          d.tracks[k]) ]
        index_of    == [ k \in 1..Len(d.tracks) |->
                           generate_track_entry(d.tracks[k]) ]
    IN  << Line("[CloneCD]", <<>>),
           Line("Version=3", <<>>),
           BlankLine,
           Line("[Disc]", <<>>),
           Line("TocEntries={}", <<toc_entries(d)>>),
           Line("Sessions=1", <<>>),
           Line("DataTracksScrambled=0", <<>>),
           Line("CDTextLength=0", <<>>),
           BlankLine,
           Line("[Session 1]", <<>>),
           Line("PreGapMode={}", <<mode_as_u8(first_track.mode)>>),
           Line("PreGapSubC=0", <<>>),
           BlankLine >>
        \o generate_track(d, 0, FirstTrack, first_track)
        \o generate_track(d, 1, LastTrack, last_track)
        \o generate_track(d, 2, LeadOut, last_track)
        \o PushAll(entry_of, 1)
        \o PushAll(index_of, 1)

CueSheets == { l \in Layouts(MaxSectors) : WellFormed(l) }

OptionBool == {None, Some(TRUE), Some(FALSE)}

OptionProtection == {None} \cup { Some(p) : p \in DiscProtection }

\* The (protection, chosen_protection_type) pairs a caller passes here: every
\* value of either argument is in one of them.
CallArgs ==
    { <<None, None>>, <<Some(TRUE), Some("DiscGuard")>>,
      <<Some(FALSE), Some("SecuROM")>>, <<Some(TRUE), Some("LibCrypt")>> }

\* No sidecar file: a Protection Override Map without entries.
NoOverrides == <<>>

\* The inputs and outputs of the command-line program, of no use to the
\* library: whether a cuesheet argument is given, whether the cuesheet can be
\* read and parsed, and whether the .sub file has been created.
NoRun == [ arg |-> FALSE, readable |-> FALSE, parses |-> FALSE,
           sub_created |-> FALSE ]

(***************************************************************************)
(* The state: the cuesheet and the backing files, the Disc built from      *)
(* them, the SectorIterator in use (its current), the last Sector returned *)
(* (by next or by sector_from_number), the number asked of                 *)
(* sector_from_number, the last subchannel block and the arguments it was  *)
(* made with, the bytes the loop over disc.sectors() has written, the      *)
(* Protection Override Map read from a sidecar file, and the inputs and    *)
(* outputs of the command-line program.                                    *)
(***************************************************************************)
VARIABLES cue, files, disc, pc, current, sector, wanted, sub, protection,
          chosen_protection_type, buf, ccd, overrides, io

vars == <<cue, files, disc, pc, current, sector, wanted, sub, protection,
          chosen_protection_type, buf, ccd, overrides, io>>

Init ==
    /\ \E l \in CueSheets : cue = CueOf(l) /\ files = FilesOf(l)
    /\ disc = None
    /\ pc = "start"
    /\ current = 0
    /\ sector = None
    /\ wanted = 0
    /\ sub = <<>>
    /\ protection = None
    /\ chosen_protection_type = None
    /\ buf = <<>>
    /\ ccd = None
    /\ overrides = NoOverrides
    /\ io = NoRun

\* let disc = Disc::from_cuesheet(cd, root)
Build ==
    /\ pc = "start"
    /\ disc' = Some(from_cuesheet(cue, files))
    /\ pc' = "built"
    /\ UNCHANGED <<cue, files, current, sector, wanted, sub, protection,
                   chosen_protection_type, buf, ccd,
                   overrides, io>>

\* disc.sectors(): a new iterator, at the head of a loop that fills a new
\* buffer with the blocks generate_subchannel(prot, chosen) returns.
Sectors(prot, chosen) ==
    /\ pc = "built"
    /\ current' = 0
    /\ buf' = <<>>
    /\ sub' = <<>>
    /\ sector' = None
    /\ protection' = prot
    /\ chosen_protection_type' = chosen
    /\ pc' = "iterating"
    /\ UNCHANGED <<cue, files, disc, wanted, ccd,
                   overrides, io>>

\* Exhausted one sector early.
ExhaustedEarly(cur, d) == cur + 1 >= d.sector_count

\* The test at the head of Iterator::next.
Exhausted(cur, d) == cur >= d.sector_count

\* disc.sectors() once more: the loop starts over with a new iterator.
Restart ==
    /\ pc \in {"iterating", "ended"}
    /\ current' = 0
    /\ buf' = <<>>
    /\ sub' = <<>>
    /\ sector' = None
    /\ pc' = "iterating"
    /\ UNCHANGED <<cue, files, disc, wanted, protection,
                   chosen_protection_type, ccd,
                   overrides, io>>

\* One turn of "for sector in disc.sectors()": Iterator::next, and for the
\* Sector it returns the block written to the buffer.
IterNext ==
    /\ pc = "iterating"
    /\ IF Exhausted(current, disc.val)
       THEN /\ sector' = None
            /\ pc' = "ended"
            /\ UNCHANGED <<current, sub, buf>>
       ELSE LET found == sector_from_number(disc.val, current)
            IN  /\ sector' = found
                /\ current' = current + 1
                /\ IF found.tag = "Some"
                   THEN /\ sub' = generate_subchannel(found.val, protection,
                                                      chosen_protection_type)
                        /\ buf' = buf \o sub'
                        /\ pc' = "iterating"
                   ELSE /\ pc' = "ended"
                        /\ UNCHANGED <<sub, buf>>
    /\ UNCHANGED <<cue, files, disc, wanted, protection,
                   chosen_protection_type, ccd,
                   overrides, io>>

\* disc.sectors().sector_from_number(n), and the block of the Sector found.
Lookup(n, prot, chosen) ==
    /\ pc = "built"
    /\ wanted' = n
    /\ sector' = sector_from_number(disc.val, n)
    /\ protection' = prot
    /\ chosen_protection_type' = chosen
    /\ sub' = IF sector'.tag = "Some"
              THEN generate_subchannel(sector'.val, prot, chosen)
              ELSE <<>>
    /\ pc' = "looked"
    /\ UNCHANGED <<cue, files, disc, current, buf, ccd,
                   overrides, io>>

\* let ccd = disc.generate_ccd()
GenerateCcd ==
    /\ pc = "built"
    /\ ccd' = Some(generate_ccd(disc.val))
    /\ pc' = "written"
    /\ UNCHANGED <<cue, files, disc, current, sector, wanted, sub, protection,
                   chosen_protection_type, buf,
                   overrides, io>>

\* The numbers asked of sector_from_number: those of the disc's sectors, and
\* the ones next to them on either side.
LookupNumbers ==
    IF disc.tag = "Some" THEN (0 - 1)..(disc.val.sector_count + 1) ELSE {}

Next ==
    \/ Build
    \/ \E args \in CallArgs : Sectors(args[1], args[2])
    \/ Restart
    \/ IterNext
    \/ \E n \in LookupNumbers, args \in CallArgs :
         Lookup(n, args[1], args[2])
    \/ GenerateCcd

Spec == Init /\ [][Next]_vars

(***************************************************************************)
(* The synthesizer alone: generate_subchannel applied to Sectors whose     *)
(* fields are drawn from sample values (the fields of Sector are public),  *)
(* with every pair of protection arguments.                                *)
(***************************************************************************)
TrackModes ==
    { "Audio", "Mode1", "Mode1Raw", "Mode2", "Mode2Form1", "Mode2Form2",
      "Mode2FormMix", "Mode2Raw" }

SampleStarts == {0, 1, 74, 75, 4499, 4500, 269999, 449849, 449850}

SampleTrackStarts == {0, 2, 75, 4500, 270000}

SampleTrackNumbers == {1, 10, 99}

SampleIndexNumbers == {0, 1, 12, 98}

SampleSectors ==
    { [ start             |-> n,
        absolute_start    |-> n + LeadIn,
        relative_position |-> n - ts,
        size              |-> SectorSize,
        track             |-> [ number |-> tn, start |-> ts, length |-> 450000,
                                indices |-> << [ number |-> ix, start |-> 0,
                                                 end |-> 450000 ] >>,
                                mode |-> m ],
        index             |-> [ number |-> ix, start |-> 0, end |-> 450000 ] ] :
      n \in SampleStarts, ts \in SampleTrackStarts, tn \in SampleTrackNumbers,
      ix \in SampleIndexNumbers, m \in TrackModes }

InitQ ==
    /\ cue = <<>>
    /\ files = <<>>
    /\ disc = None
    /\ pc = "sector"
    /\ current = 0
    /\ sector \in { Some(s) : s \in SampleSectors }
    /\ wanted = 0
    /\ sub = <<>>
    /\ protection = None
    /\ chosen_protection_type = None
    /\ buf = <<>>
    /\ ccd = None
    /\ overrides = NoOverrides
    /\ io = NoRun

\* sector.generate_subchannel(prot, chosen)
Synthesize(prot, chosen) ==
    /\ pc = "sector"
    /\ protection' = prot
    /\ chosen_protection_type' = chosen
    /\ sub' = generate_subchannel(sector.val, prot, chosen)
    /\ pc' = "synthesized"
    /\ UNCHANGED <<cue, files, disc, current, sector, wanted, buf, ccd,
                   overrides, io>>

NextQ == \E prot \in OptionBool, chosen \in OptionProtection :
             Synthesize(prot, chosen)

SpecQ == InitQ /\ [][NextQ]_vars

(***************************************************************************)
(* The program over every cuesheet the parser accepts: the first file of a *)
(* cuesheet may begin with sectors that no INDEX line covers (its first    *)
(* INDEX is then not at 00:00:00), and a backing file may be missing.      *)
(***************************************************************************)
MaxGap == 1

\* A cuesheet whose INDEX lines in the first file are all gap sectors later.
ShiftCue(cuesheet, gap) ==
    [ i \in 1..Len(cuesheet) |->
        IF cuesheet[i].filename = FileNames[1]
        THEN [ cuesheet[i] EXCEPT
                 !.start = @ + gap,
                 !.index = [ n \in DOMAIN @ |-> @[n] + gap ] ]
        ELSE cuesheet[i] ]

\* The files of such a cuesheet: the first one is longer by the gap.
ShiftFiles(fs, gap) ==
    [ f \in DOMAIN fs |->
        IF f = FileNames[1] THEN fs[f] + gap * SectorSize ELSE fs[f] ]

\* The files that are there when the files in lost are missing.
Without(fs, lost) == [ f \in DOMAIN fs \ lost |-> fs[f] ]

InitAny ==
    /\ \E l \in CueSheets, gap \in 0..MaxGap :
         \E lost \in {{}} \cup { {f} : f \in DOMAIN FilesOf(l) } :
            /\ cue = ShiftCue(CueOf(l), gap)
            /\ files = Without(ShiftFiles(FilesOf(l), gap), lost)
    /\ disc = None
    /\ pc = "start"
    /\ current = 0
    /\ sector = None
    /\ wanted = 0
    /\ sub = <<>>
    /\ protection = None
    /\ chosen_protection_type = None
    /\ buf = <<>>
    /\ ccd = None
    /\ overrides = NoOverrides
    /\ io = NoRun

SpecAny == InitAny /\ [][Next]_vars

(***************************************************************************)
(* The synthesizer with a sidecar file next to the cuesheet: the           *)
(* Protection Override Map read from it maps absolute sector numbers to    *)
(* the Q bytes captured from a real disc, 10 of them from an SBI file and  *)
(* 12 from an LSD file.                                                    *)
(***************************************************************************)
SbiEntry == << 65, 1, 1, 0, 0, 0, 0, 9, 9, 9 >>

LsdEntry == << 65, 1, 1, 0, 0, 0, 0, 9, 9, 9, 170, 85 >>

SampleMaps ==
    { NoOverrides,
      [ k \in {150, 151} |-> SbiEntry ],
      [ k \in {150} |-> LsdEntry ],
      [ k \in 4650..4725 |-> LsdEntry ] }

\* The entry counts that identify the two DiscGuard variants.
DiscGuardSignatures == {76, 600}

SampleProtectedSectors ==
    { s \in SampleSectors :
        /\ s.start \in {0, 1, 4500}
        /\ s.track.start = 0
        /\ s.track.number = 1
        /\ s.index.number = 1
        /\ s.track.mode \in {"Audio", "Mode2Raw"} }

InitP ==
    /\ cue = <<>>
    /\ files = <<>>
    /\ disc = None
    /\ pc = "sector"
    /\ current = 0
    /\ sector \in { Some(s) : s \in SampleProtectedSectors }
    /\ wanted = 0
    /\ sub = <<>>
    /\ protection = None
    /\ chosen_protection_type = None
    /\ buf = <<>>
    /\ ccd = None
    /\ overrides \in SampleMaps
    /\ io = NoRun

SpecP == InitP /\ [][NextQ]_vars

(***************************************************************************)
(* The TOC generator alone: generate_ccd applied to Discs whose fields are *)
(* drawn from sample values (the fields of Disc and Track are public).     *)
(***************************************************************************)
SampleTocTracks ==
    { [ number  |-> n,
        start   |-> s,
        length  |-> 75,
        indices |-> << [ number |-> 1, start |-> s, end |-> s + 74 ] >>,
        mode    |-> m ] :
      n \in {1, 2, 99}, s \in {0, 4349, 4350, 269850},
      m \in {"Audio", "Mode2Raw"} }

SampleDiscs ==
    { [ tracks |-> ts, sector_count |-> c ] :
      ts \in { <<a>> : a \in SampleTocTracks }
               \cup { <<a, b>> : a \in SampleTocTracks, b \in SampleTocTracks },
      c \in {4425, 449850} }

InitToc ==
    /\ cue = <<>>
    /\ files = <<>>
    /\ disc \in { Some(d) : d \in SampleDiscs }
    /\ pc = "built"
    /\ current = 0
    /\ sector = None
    /\ wanted = 0
    /\ sub = <<>>
    /\ protection = None
    /\ chosen_protection_type = None
    /\ buf = <<>>
    /\ ccd = None
    /\ overrides = NoOverrides
    /\ io = NoRun

NextToc == GenerateCcd

SpecToc == InitToc /\ [][NextToc]_vars

(***************************************************************************)
(* The command-line program, main.rs: it reads the cuesheet named by its   *)
(* argument, checks it, creates the .sub file next to the backing file and *)
(* writes one 96-byte block per sector, track by track, pregap first.      *)
(* pc is the step main is about to take; current is the number of the      *)
(* track being written, wanted the LBA of the block written last, sub that *)
(* block, buf the contents of the .sub file.                               *)
(***************************************************************************)
\* main.rs, fn sector_count
sector_count(size, sector_size) == size \div sector_size

\* main.rs, fn bcd (its callers cast the result with "as u8")
main_bcd(dec) == BitOr(Shl(TDiv(dec, 10), 4), TRem(dec, 10))

\* main.rs, fn has_multiple_files (it unwraps the first track)
has_multiple_files(tracks) ==
    LET base_file == tracks[1].filename
    IN  \E i \in 2..Len(tracks) : tracks[i].filename # base_file

\* track.get_zero_pre(): the length of the pregap INDEX 00 .. INDEX 01.
get_zero_pre(track) ==
    IF 0 \in DOMAIN track.index
    THEN Some(track.index[1] - track.index[0])
    ELSE None

\* main.rs, fn generate_q_subchannel
main_generate_q_subchannel(absolute_sector, relative_sector, last_sector, track, is_pregap, track_type) ==
    LET q0   == BitOr(IF track_type = "Audio" THEN 0 ELSE BitOr(0, Shl(1, 6)),
                      Shl(1, 0))
        q1   == IF is_pregap THEN AsU8(track) + 1 ELSE AsU8(track)
        q2   == IF is_pregap THEN 0 ELSE 1
        time == IF is_pregap
                THEN 150 + 1 - (absolute_sector - last_sector)
                ELSE relative_sector
        head == << q0, q1, q2,
                   AsU8(main_bcd(TDiv(time, 4500))),
                   AsU8(main_bcd(TRem(TDiv(time, 75), 60))),
                   AsU8(main_bcd(TRem(time, 75))),
                   0,
                   AsU8(main_bcd(TDiv(absolute_sector, 4500))),
                   AsU8(main_bcd(TRem(TDiv(absolute_sector, 75), 60))),
                   AsU8(main_bcd(TRem(absolute_sector, 75))) >>
        crc  == crc16(head, CRC16_INITIAL_CRC)
    IN  head \o << AsU8((crc \div 256) % 256), AsU8(crc % 256) >>

\* The block main writes for a sector of the pregap of a track.
PregapBlock(lba, pregap, start, track_num, mode) ==
    [ i \in 1..12 |-> 255 ]
    \o main_generate_q_subchannel(lba + 151, lba - pregap, start, track_num,
                                  TRUE, mode)
    \o [ i \in 1..72 |-> 0 ]

\* The block main writes for a sector of the body of a track.
BodyBlock(lba, start, track_length, track_num, mode) ==
    (IF lba = 0 THEN [ i \in 1..12 |-> 255 ] ELSE [ i \in 1..12 |-> 0 ])
    \o main_generate_q_subchannel(lba + 151, lba - start, start + track_length,
                                  track_num, FALSE, mode)
    \o [ i \in 1..72 |-> 0 ]

\* The length main gives a track: the cue's, or what is left of the file.
MainTrackLength(track, fs) ==
    unwrap_or(track.length,
              sector_count(fs[cue[1].filename], SectorSize) - track.start)

\* The steps of main up to the loop over the tracks, with .sub created
\* before the checks of the backing file.
MainOrderCreateFirst ==
    << "argv", "read", "parse", "create", "single_file", "is_file", "tracks" >>

\* The steps of main up to the loop over the tracks, in the order of its
\* statements.
MainOrder ==
    << "argv", "read", "parse", "single_file", "is_file", "create", "tracks" >>

StepAfter(step) ==
    MainOrder[(CHOOSE k \in 1..Len(MainOrder) : MainOrder[k] = step) + 1]

RunInputs ==
    { [ arg |-> a, readable |-> r, parses |-> p, sub_created |-> FALSE ] :
      a \in BOOLEAN, r \in BOOLEAN, p \in BOOLEAN }

InitMain ==
    /\ \/ \E l \in CueSheets :
            \E lost \in {{}} \cup { {f} : f \in DOMAIN FilesOf(l) } :
               /\ cue = CueOf(l)
               /\ files = Without(FilesOf(l), lost)
       \/ cue = <<>> /\ files = <<>>
    /\ io \in RunInputs
    /\ pc = MainOrder[1]
    /\ disc = None
    /\ current = 0
    /\ sector = None
    /\ wanted = 0
    /\ sub = <<>>
    /\ protection = None
    /\ chosen_protection_type = None
    /\ buf = <<>>
    /\ ccd = None
    /\ overrides = NoOverrides

\* if let Some(filename) = argv.next() ... else exit(1)
MainArgv ==
    /\ pc = "argv"
    /\ pc' = IF io.arg THEN StepAfter("argv") ELSE "exited"
    /\ UNCHANGED <<cue, files, disc, current, sector, wanted, sub, protection,
                   chosen_protection_type, buf, ccd, overrides, io>>

\* cue_sheet = std::fs::read_to_string(&fname)?
MainRead ==
    /\ pc = "read"
    /\ pc' = IF io.readable THEN StepAfter("read") ELSE "failed"
    /\ UNCHANGED <<cue, files, disc, current, sector, wanted, sub, protection,
                   chosen_protection_type, buf, ccd, overrides, io>>

\* let cd = CD::parse(cue_sheet)?
MainParse ==
    /\ pc = "parse"
    /\ pc' = IF io.parses THEN StepAfter("parse") ELSE "failed"
    /\ UNCHANGED <<cue, files, disc, current, sector, wanted, sub, protection,
                   chosen_protection_type, buf, ccd, overrides, io>>

\* if has_multiple_files(tracks) { ... exit(1) }
MainSingleFile ==
    /\ pc = "single_file"
    /\ pc' = IF Len(cue) = 0 THEN "panicked"
             ELSE IF has_multiple_files(cue) THEN "exited"
             ELSE StepAfter("single_file")
    /\ UNCHANGED <<cue, files, disc, current, sector, wanted, sub, protection,
                   chosen_protection_type, buf, ccd, overrides, io>>

\* if !file.is_file() { ... exit(1) }
MainIsFile ==
    /\ pc = "is_file"
    /\ pc' = IF Len(cue) = 0 THEN "panicked"
             ELSE IF cue[1].filename \notin DOMAIN files THEN "exited"
             ELSE StepAfter("is_file")
    /\ UNCHANGED <<cue, files, disc, current, sector, wanted, sub, protection,
                   chosen_protection_type, buf, ccd, overrides, io>>

\* let mut sub_write = File::create(sub_target)?
MainCreate ==
    /\ pc = "create"
    /\ io' = [ io EXCEPT !.sub_created = TRUE ]
    /\ buf' = <<>>
    /\ pc' = StepAfter("create")
    /\ UNCHANGED <<cue, files, disc, current, sector, wanted, sub, protection,
                   chosen_protection_type, ccd, overrides>>

\* for (i, track) in cd.tracks().iter().enumerate(): the next track, or the
\* end of main.
MainEnterTrack ==
    /\ pc = "tracks"
    /\ IF current >= Len(cue)
       THEN /\ pc' = "done"
            /\ UNCHANGED <<current, wanted>>
       ELSE LET track == cue[current + 1]
                pre   == get_zero_pre(track)
            IN  /\ current' = current + 1
                /\ IF pre.tag = "Some"
                   THEN pc' = "pregap" /\ wanted' = track.start - pre.val - 1
                   ELSE pc' = "body" /\ wanted' = track.start - 1
    /\ sub' = <<>>
    /\ UNCHANGED <<cue, files, disc, sector, protection,
                   chosen_protection_type, buf, ccd, overrides, io>>

\* for lba in (start - pregap)..start: one sector of the pregap.
MainPregap ==
    /\ pc = "pregap"
    /\ LET track  == cue[current]
           start  == track.start
           pregap == get_zero_pre(track).val
           lba    == wanted + 1
       IN  IF lba < start
           THEN /\ sub' = PregapBlock(lba, pregap, start, current, track.mode)
                /\ buf' = buf \o sub'
                /\ wanted' = lba
                /\ pc' = "pregap"
           ELSE /\ sub' = <<>>
                /\ wanted' = start - 1
                /\ pc' = "body"
                /\ UNCHANGED buf
    /\ UNCHANGED <<cue, files, disc, current, sector, protection,
                   chosen_protection_type, ccd, overrides, io>>

\* for lba in start..track_length + start: one sector of the body.
MainBody ==
    /\ pc = "body"
    /\ LET track        == cue[current]
           start        == track.start
           track_length == MainTrackLength(track, files)
           lba          == wanted + 1
       IN  IF lba < track_length + start
           THEN /\ sub' = BodyBlock(lba, start, track_length, current,
                                    track.mode)
                /\ buf' = buf \o sub'
                /\ wanted' = lba
                /\ pc' = "body"
           ELSE /\ sub' = <<>>
                /\ pc' = "tracks"
                /\ UNCHANGED <<buf, wanted>>
    /\ UNCHANGED <<cue, files, disc, current, sector, protection,
                   chosen_protection_type, ccd, overrides, io>>

NextMain ==
    \/ MainArgv
    \/ MainRead
    \/ MainParse
    \/ MainSingleFile
    \/ MainIsFile
    \/ MainCreate
    \/ MainEnterTrack
    \/ MainPregap
    \/ MainBody

SpecMain == InitMain /\ [][NextMain]_vars

(***************************************************************************)
(* Properties.                                                             *)
(***************************************************************************)
Built == disc.tag = "Some"

\* The sectors of the disc: 0 .. sector_count - 1.
DiscSectors == IF Built THEN 0..(disc.val.sector_count - 1) ELSE {}

\* sub is the block generate_subchannel returned for sector.
Synthesized == sector.tag = "Some" /\ sub # <<>>

\* A track's sectors run from its first index to start + length, exclusive.
TrackContains(track, n) ==
    track.indices[1].start <= n /\ n < track.start + track.length

\* C1: for every sector number n in [0, sector_count), sector_from_number(n)
\* returns a Sector, with start = n, whose index has start <= n <= end and
\* whose track contains n.
C1_LookupOwnsSector ==
    (pc = "looked" /\ wanted \in DiscSectors) =>
        /\ sector.tag = "Some"
        /\ sector.val.start = wanted
        /\ sector.val.index.start <= wanted
        /\ wanted <= sector.val.index.end
        /\ TrackContains(sector.val.track, wanted)

\* The k-th 96-byte block of the buffer (k from 0).
Block(k) == SubSeq(buf, 96 * k + 1, 96 * k + 96)

\* What is 0..99 as two decimal digits, one per nibble.
BcdByte(n) == ((n \div 10) * 16 + (n % 10)) % 256

\* The absolute timecode bytes (Q bytes 7-9) of image sector k.
AbsoluteTimecode(k) ==
    << BcdByte((k + 150) \div 4500), BcdByte(((k + 150) \div 75) % 60),
       BcdByte((k + 150) % 75) >>

C3_SubchannelLayout ==
    Synthesized =>
        /\ Len(sub) = 96
        /\ \A i \in 1..12 : sub[i] \in {0, 255} /\ sub[i] = sub[1]
        /\ SubSeq(sub, 13, 24) =
               generate_q_subchannel(sector.val.absolute_start,
                                     sector.val.relative_position,
                                     sector.val.track.number,
                                     sector.val.index.number,
                                     sector.val.track.mode,
                                     protection, chosen_protection_type)
        /\ \A i \in 25..96 : sub[i] = 0

C3_Witness ==
    /\ pc = "synthesized"
    /\ Len(sub) = 96
    /\ sector.val.track.mode = "Mode2Form1"
    /\ protection = Some(TRUE)
    /\ chosen_protection_type = Some("LibCrypt")

\* C4: the 12 Q bytes: control and mode (0x41 data, 0x01 audio), the track
\* and index numbers in BCD, MIN/SEC/FRAC of |relative_position| in BCD, a
\* zero, MIN/SEC/FRAC of absolute_start in BCD, and the CRC16 of the first
\* ten bytes, high byte first.
C4_QChannelBytes ==
    Synthesized =>
        LET s == sector.val
            q == SubSeq(sub, 13, 24)
            p == IF s.relative_position < 0 THEN 0 - s.relative_position
                                            ELSE s.relative_position
            a == s.absolute_start
        IN  /\ q[1] = (IF s.track.mode = "Audio" THEN 1 ELSE 65)
            /\ q[2] = BcdByte(s.track.number)
            /\ q[3] = BcdByte(s.index.number)
            /\ q[4] = BcdByte(p \div 4500)
            /\ q[5] = BcdByte((p \div 75) % 60)
            /\ q[6] = BcdByte(p % 75)
            /\ q[7] = 0
            /\ q[8] = BcdByte(a \div 4500)
            /\ q[9] = BcdByte((a \div 75) % 60)
            /\ q[10] = BcdByte(a % 75)
            /\ q[11] * 256 + q[12] = crc16(SubSeq(q, 1, 10), CRC16_INITIAL_CRC)
            /\ q[11] \in 0..255 /\ q[12] \in 0..255

C4_Witness ==
    /\ pc = "synthesized"
    /\ sector.val.relative_position = 0 - 4500
    /\ sector.val.absolute_start = 150
    /\ sector.val.track.mode = "Audio"
    /\ SubSeq(sub, 13, 22) = <<1, 16, 0, 1, 0, 0, 0, 0, 2, 0>>

\* C5: the 12 P bytes are all 0xFF when the sector is the first of the disc
\* or its index number is 0, and all 0x00 otherwise.
C5_PChannel ==
    Synthesized =>
        LET gap == sector.val.start = 0 \/ sector.val.index.number = 0
        IN  \A i \in 1..12 : sub[i] = (IF gap THEN 255 ELSE 0)

C5_Witness ==
    /\ pc = "iterating"
    /\ sector.tag = "Some"
    /\ sector.val.start > 0
    /\ sector.val.index.number = 0
    /\ \A i \in 1..12 : sub[i] = 255

\* C6: each sector number in [0, sector_count) passes the containment test of
\* sector_from_number for exactly one (track, index).
C6_ExactlyOneOwner ==
    \A n \in DiscSectors : Cardinality(Matches(disc.val, n)) = 1

\* C7: a Sector of index 0 has a strictly negative relative_position; a Sector
\* of index >= 1 has relative_position = its distance from the first sector
\* of index 1 of its track, which is not negative.
C7_RelativePositionSign ==
    (pc \in {"looked", "iterating"} /\ sector.tag = "Some") =>
        LET s    == sector.val
            body == CHOOSE i \in 1..Len(s.track.indices) :
                        s.track.indices[i].number = 1
        IN  /\ s.index.number = 0 => s.relative_position < 0
            /\ s.index.number >= 1 =>
                   /\ s.relative_position >= 0
                   /\ s.relative_position =
                          s.start - s.track.indices[body].start

\* The length of the files the tracks before track i have left behind.
RECURSIVE PriorFiles(_)
PriorFiles(i) ==
    IF i <= 1 THEN 0
    ELSE PriorFiles(i - 1)
         + (IF cue[i].filename # cue[i - 1].filename
            THEN files[cue[i - 1].filename] \div 2352 ELSE 0)

\* C8: the indices of a track are in ascending order of number, each starts at
\* its cue offset plus the length of the prior files, and each ends one sector
\* before the next index of the track, the last one at the end of the track.
C8_IndexEnds ==
    Built =>
        \A t \in 1..Len(disc.val.tracks) :
            LET track == disc.val.tracks[t]
                n     == Len(track.indices)
            IN  \A k \in 1..n :
                    /\ k < n => track.indices[k].number
                                    < track.indices[k + 1].number
                    /\ track.indices[k].start =
                           cue[t].index[track.indices[k].number] + PriorFiles(t)
                    /\ k < n => track.indices[k].end
                                    = track.indices[k + 1].start - 1
                    /\ k = n => track.indices[k].end \in
                                    { track.start + track.length - 1,
                                      track.start + track.length }

\* C9: every track starts at its cue start plus the length of the files left
\* behind before it; its length is the cue's when the cue has one, and else
\* runs to the end of its file; sector_count is the end of the last file.
C9_TrackGeometry ==
    Built =>
        /\ Len(disc.val.tracks) = Len(cue)
        /\ \A t \in 1..Len(cue) :
               LET track == disc.val.tracks[t]
                   flen  == files[cue[t].filename] \div 2352
               IN  /\ track.start = cue[t].start + PriorFiles(t)
                   /\ track.length =
                          (IF cue[t].length.tag = "Some"
                           THEN cue[t].length.val
                           ELSE PriorFiles(t) + flen - track.start)
        /\ disc.val.sector_count =
               PriorFiles(Len(cue))
               + files[cue[Len(cue)].filename] \div 2352

C9_Witness ==
    /\ Built
    /\ Len(cue) = 3
    /\ cue[2].filename # cue[1].filename
    /\ cue[2].length.tag = "Some"
    /\ disc.val.tracks[3].start = cue[3].start + 1
    /\ disc.val.sector_count = MaxSectors

\* The lines of a text that a format string wrote, in order.
LinesOf(text, fmt) == SelectSeq(text, LAMBDA l : l.fmt = fmt)

\* C10: for a disc of N tracks TocEntries = N + 3; there are N + 3 [Entry k]
\* blocks, k = 0 .. N + 2, with Point 0xa0, 0xa1, 0xa2 and then the numbers of
\* the tracks in order; the [Entry] blocks all come before the [TRACK]
\* blocks, of which there is one per track.
C10_TocEntries ==
    ccd.tag = "Some" =>
        LET text    == ccd.val
            n       == Len(disc.val.tracks)
            entries == LinesOf(text, "[Entry {}]")
            points  == LinesOf(text, "Point=0x{:02x}")
            tracks  == LinesOf(text, "[TRACK {}]")
        IN  /\ LinesOf(text, "TocEntries={}") = << Line("TocEntries={}", <<n + 3>>) >>
            /\ Len(entries) = n + 3
            /\ \A k \in 1..Len(entries) : entries[k].args = <<k - 1>>
            /\ Len(points) = n + 3
            /\ \A k \in 1..Len(points) :
                   points[k].args =
                       << CASE k = 1 -> 160
                            [] k = 2 -> 161
                            [] k = 3 -> 162
                            [] OTHER -> disc.val.tracks[k - 3].number >>
            /\ \A i, j \in 1..Len(text) :
                   (text[i].fmt \in {"[Entry {}]", "Point=0x{:02x}", "PLBA={}"}
                    /\ text[j].fmt = "[TRACK {}]") => i < j
            /\ Len(tracks) = n
            /\ \A k \in 1..Len(tracks) :
                   tracks[k].args = << disc.val.tracks[k].number >>

C10_Witness ==
    /\ ccd.tag = "Some"
    /\ Len(disc.val.tracks) = 3
    /\ Len(LinesOf(ccd.val, "[Entry {}]")) = 6
    /\ Len(LinesOf(ccd.val, "[TRACK {}]")) = 3

\* MSF(x) = (x / 4500, (x / 75) mod 60, x mod 75), for x >= 0.
Msf(x) == << x \div 4500, (x \div 75) % 60, x % 75 >>

\* The pointer kinds of the [Entry] blocks of a disc, in order: the track each
\* is about, and whether it is a first/last pointer, the leadout or a track.
EntryKinds(d) ==
    << [ kind |-> "edge", track |-> d.tracks[1] ],
       [ kind |-> "edge", track |-> d.tracks[Len(d.tracks)] ],
       [ kind |-> "leadout", track |-> d.tracks[Len(d.tracks)] ] >>
    \o [ k \in 1..Len(d.tracks) |-> [ kind |-> "track", track |-> d.tracks[k] ] ]

C12_GapSurfaced ==
    (Built /\ pc = "ended") =>
        \A n \in DiscSectors : Matches(disc.val, n) # {}

\* C13: sector_from_number(n) returns nothing for every n < 0 and every
\* n >= sector_count.
C13_NothingOutside ==
    (pc = "looked" /\ wanted \notin DiscSectors) => sector = None

\* C14: a Disc is built only from a cuesheet whose backing files are all
\* there: when a file is missing, from_cuesheet fails and gives no Disc.
C14_MissingFileFails ==
    Built => \A t \in 1..Len(cue) : cue[t].filename \in DOMAIN files

\* C15: when the caller asks for protection and the Protection Override Map
\* has an entry for the sector's absolute sector number, the Q channel of
\* generate_subchannel begins with the entry's bytes (10 from an SBI file, 12
\* from an LSD file); a sector without an entry gets the synthesized Q channel.
C15_OverrideApplied ==
    (pc = "synthesized" /\ Synthesized) =>
        LET a == sector.val.absolute_start
            q == SubSeq(sub, 13, 24)
        IN  /\ (/\ protection = Some(TRUE)
                /\ chosen_protection_type.tag = "Some"
                /\ a \in DOMAIN overrides) =>
                   SubSeq(q, 1, Len(overrides[a])) = overrides[a]
            /\ a \notin DOMAIN overrides =>
                   q = generate_q_subchannel(a, sector.val.relative_position,
                                             sector.val.track.number,
                                             sector.val.index.number,
                                             sector.val.track.mode,
                                             protection, chosen_protection_type)

\* C16: when the caller asks for DiscGuard and the Protection Override Map of
\* the sidecar has a number of entries that is not a DiscGuard signature, no
\* subchannel block is produced.
C16_MismatchRejected ==
    (/\ chosen_protection_type = Some("DiscGuard")
     /\ overrides # NoOverrides
     /\ Cardinality(DOMAIN overrides) \notin DiscGuardSignatures) =>
        sub = <<>>

\* The number a BCD byte stands for.
DecodeBcd(byte) == (byte \div 16) * 10 + (byte % 16)

\* C17: for a sector of a track numbered at most 99 with an absolute sector
\* number below 450000, the values encoded in Q bytes 1-5 and 7-9 are in
\* range (FRAC 0..74, SEC 0..59, MIN, track and index 0..99), both nibbles of
\* each byte are at most 9, and each byte decodes back to its value.
C17_BcdInRange ==
    (/\ Synthesized
     /\ sector.val.track.number <= 99
     /\ sector.val.absolute_start < 450000) =>
        LET s    == sector.val
            q    == SubSeq(sub, 13, 24)
            p    == IF s.relative_position < 0 THEN 0 - s.relative_position
                                                ELSE s.relative_position
            a    == s.absolute_start
            pos  == << 2, 3, 4, 5, 6, 8, 9, 10 >>
            vals == << s.track.number, s.index.number,
                       p \div 4500, (p \div 75) % 60, p % 75,
                       a \div 4500, (a \div 75) % 60, a % 75 >>
            top  == << 99, 99, 99, 59, 74, 99, 59, 74 >>
        IN  \A k \in 1..8 :
                /\ vals[k] \in 0..top[k]
                /\ q[pos[k]] \div 16 <= 9
                /\ q[pos[k]] % 16 <= 9
                /\ DecodeBcd(q[pos[k]]) = vals[k]

C17_Witness ==
    /\ pc = "synthesized"
    /\ sector.val.track.number = 99
    /\ sector.val.index.number = 98
    /\ sector.val.absolute_start = 449999
    /\ sector.val.relative_position = 449849
    /\ SubSeq(sub, 14, 22) = << 153, 152, 153, 87, 116, 0, 153, 89, 116 >>

\* The lines that open a block of the CCD text.
BlockHeaders ==
    { "[CloneCD]", "[Disc]", "[Session 1]", "[Entry {}]", "[TRACK {}]" }

\* C18: in the text of generate_ccd (each line is ended by "\n") every block
\* but the first comes after exactly one blank line, and blank lines are
\* nowhere else: not inside a block, not two in a row.
C18_BlankLineBetweenBlocks ==
    ccd.tag = "Some" =>
        LET text == ccd.val
        IN  /\ text[1].fmt \in BlockHeaders
            /\ \A i \in 2..Len(text) :
                   /\ text[i].fmt \in BlockHeaders => text[i - 1] = BlankLine
                   /\ text[i] = BlankLine =>
                          /\ text[i - 1] # BlankLine
                          /\ i < Len(text) => text[i + 1].fmt \in BlockHeaders

\* C19: when main ends a run for no cuesheet argument, an unreadable
\* cuesheet, a cuesheet that does not parse, tracks in more than one file or
\* a backing file that is not there, the .sub file has not been created.
C19_NoOutputOnRejection ==
    pc \in {"exited", "failed", "panicked"} => ~io.sub_created

C19_Witness ==
    /\ pc = "exited"
    /\ io.arg /\ io.readable /\ io.parses
    /\ Len(cue) >= 2
    /\ ~has_multiple_files(cue)
    /\ cue[1].filename \notin DOMAIN files
    /\ ~io.sub_created

\* C20: every block main writes for the sector at LBA n, in the pregap loop
\* or in the body loop, has in Q bytes 7-9 the BCD MIN/SEC/FRAC of n + 150.
C20_MainAbsoluteTimecode ==
    (pc \in {"pregap", "body"} /\ sub # <<>>) =>
        SubSeq(sub, 20, 22) = AbsoluteTimecode(wanted)
====
